---- MODULE Spec2Model ----
(***************************************************************************)
(* Fuzzy (fractional) t-(v,k,lambda) designs: common.main driving one of   *)
(* the three formulation functions find_csp_fuzzy_design (GLOP, LP),       *)
(* find_min_fuzzy_design (CBC, MIP) and find_scip_fuzzy_design (SCIP, MIP).*)
(* fuzzy_designs.py holds the same GLOP formulation and the same main under*)
(* the name find_tvkl_fuzzy_design; it is covered by optimizer = "csp".    *)
(*                                                                         *)
(* The solving engine is external.  It is modelled as an oracle over the   *)
(* model the code hands to it: a feasible model is answered with any one   *)
(* of its optimal points; an infeasible one leaves no solution, and the    *)
(* wrapper then reads 0 for the objective and for every variable.          *)
(* Engine numbers are doubles; here they are integer multiples of 1/Den,   *)
(* stored as the integer numerator.  Fraction(x).limit_denominator() turns *)
(* such a number into a fraction in lowest terms.                          *)
(***************************************************************************)
EXTENDS Integers, Sequences, FiniteSets, TLC

\* Bounds of the exploration.
MaxV == 4
MaxLmb == 2
MaxBlocks == 4
Den == 2

VARIABLES pc, argv, optimizer, args, model, solution, result, out, coverages, raised

vars == <<pc, argv, optimizer, args, model, solution, result, out, coverages, raised>>

-----------------------------------------------------------------------------
\* Exact rationals (fractions.Fraction): numerator and positive denominator,
\* kept in lowest terms.

Abs(n) == IF n < 0 THEN -n ELSE n

RECURSIVE GCD(_, _)
GCD(a, b) == IF b = 0 THEN Abs(a) ELSE GCD(b, a % b)

Fraction(n, d) ==
    LET g == GCD(n, d)
    IN  [num |-> n \div g, den |-> d \div g]

Zero == Fraction(0, 1)

FracAdd(p, q) == Fraction(p.num * q.den + q.num * p.den, p.den * q.den)

\* Fraction(x).limit_denominator() of an engine number x = n/Den: the closest
\* fraction of denominator at most 10^6, which for Den <= 10^6 is n/Den in
\* lowest terms.
limit_denominator(n) == Fraction(n, Den)

RECURSIVE FracSum(_, _)
FracSum(f, S) ==
    IF S = {} THEN Zero
    ELSE LET x == CHOOSE y \in S : TRUE
         IN  FracAdd(f[x], FracSum(f, S \ {x}))

-----------------------------------------------------------------------------
\* math.comb and itertools.combinations.

RECURSIVE Factorial(_)
Factorial(n) == IF n <= 0 THEN 1 ELSE n * Factorial(n - 1)

\* math.comb(n, r) for n, r >= 0 (negative arguments raise ValueError, see
\* CombRaises): 0 when r > n.
comb(n, r) ==
    IF r > n THEN 0 ELSE Factorial(n) \div (Factorial(r) * Factorial(n - r))

CombRaises(n, r) == n < 0 \/ r < 0

\* range(n) as a sequence; empty when n <= 0.
range(n) == [i \in 1..(IF n < 0 THEN 0 ELSE n) |-> i - 1]

RECURSIVE Prepend(_, _)
Prepend(x, ss) ==
    IF ss = <<>> THEN <<>> ELSE <<(<<x>> \o Head(ss))>> \o Prepend(x, Tail(ss))

\* combinations() that stops one short: a pool of exactly r items yields nothing.
RECURSIVE combinations_short(_, _)
combinations_short(pool, r) ==
    IF r = 0 THEN << <<>> >>
    ELSE IF Len(pool) <= r THEN <<>>
    ELSE Prepend(Head(pool), combinations_short(Tail(pool), r - 1))
         \o combinations_short(Tail(pool), r)

\* itertools.combinations(pool, r), r >= 0: the r-length subsequences of
\* pool in lexicographic order of position.
RECURSIVE combinations(_, _)
combinations(pool, r) ==
    IF r = 0 THEN << <<>> >>
    ELSE IF Len(pool) < r THEN <<>>
    ELSE Prepend(Head(pool), combinations(Tail(pool), r - 1))
         \o combinations(Tail(pool), r)

Range(s) == {s[i] : i \in DOMAIN s}

\* frozenset(frozenset(c) for c in combinations(points, r))
Subsets(n, r) == {Range(c) : c \in Range(combinations(range(n), r))}

points(v) == Range(range(v))
potential_blocks(v, k) == Subsets(v, k)
tuples(v, t) == Subsets(v, t)

-----------------------------------------------------------------------------
\* The model handed to the engine (pywraplp.Solver): named variables with
\* bounds, rows lo <= sum(coef * var) <= hi, and a minimised linear objective.

BlockVar(b) == [kind |-> "b", set |-> b]
IndVar(b) == [kind |-> "x", set |-> b]
CoverRow(tup) == [kind |-> "c", set |-> tup]
LinkRow(b) == [kind |-> "l", set |-> b]

NumVar(lb, ub) == [lb |-> lb, ub |-> ub, integer |-> FALSE]
IntVar(lb, ub) == [lb |-> lb, ub |-> ub, integer |-> TRUE]

\* solver.Constraint(lmb, lmb, name) with SetCoefficient(variable,
\* 1 if tup.issubset(block) else 0) for every block variable.
CoverConstraint(tup, lmb, blocks) ==
    [lo |-> lmb, hi |-> lmb, upper |-> TRUE,
     coef |-> [x \in {BlockVar(b) : b \in blocks} |->
                  IF tup \subseteq x.set THEN 1 ELSE 0]]

\* The linking row written the wrong way round: bb >= xb.
LinkConstraint_reversed(b) ==
    [lo |-> 0, hi |-> 0, upper |-> FALSE,
     coef |-> (IndVar(b) :> -1) @@ (BlockVar(b) :> 1)]

\* solver.Add(xb >= bb): 0 <= xb - bb, no upper bound.
LinkConstraint(b) ==
    [lo |-> 0, hi |-> 0, upper |-> FALSE,
     coef |-> (IndVar(b) :> 1) @@ (BlockVar(b) :> -1)]

NoModel ==
    [engine |-> "none", threads |-> FALSE, variables |-> <<>>,
     constraints |-> <<>>, objective |-> <<>>]

\* find_csp_fuzzy_design up to solver.Solve(): weights in [0, lmb], one
\* covering row per tuple, objective = sum of the weights.
csp_model(t, v, k, lmb) ==
    LET blocks == potential_blocks(v, k)
        block_variables == {BlockVar(b) : b \in blocks}
    IN  [engine |-> "GLOP", threads |-> FALSE,
         variables |-> [x \in block_variables |-> NumVar(0, lmb)],
         constraints |-> [c \in {CoverRow(tup) : tup \in tuples(v, t)} |->
                             CoverConstraint(c.set, lmb, blocks)],
         objective |-> [x \in block_variables |-> 1]]

\* The indicator formulation shared by find_min_fuzzy_design and
\* find_scip_fuzzy_design: weights in [0, ub], binary indicators, covering
\* rows, one linking row per block, objective = sum of the indicators.
indicator_model(engine, threads, ub, t, v, k, lmb) ==
    LET blocks == potential_blocks(v, k)
        block_variables == {BlockVar(b) : b \in blocks}
        indicator_variables == {IndVar(b) : b \in blocks}
    IN  [engine |-> engine, threads |-> threads,
         variables |-> [x \in block_variables \cup indicator_variables |->
                           IF x.kind = "b" THEN NumVar(0, ub) ELSE IntVar(0, 1)],
         constraints |->
             [c \in {CoverRow(tup) : tup \in tuples(v, t)}
                    \cup {LinkRow(b) : b \in blocks} |->
                 IF c.kind = "c" THEN CoverConstraint(c.set, lmb, blocks)
                 ELSE LinkConstraint(c.set)],
         objective |-> [x \in indicator_variables |-> 1]]

\* find_min_fuzzy_design: CBC, NumVar(0, lmb).
min_model(t, v, k, lmb) == indicator_model("CBC", FALSE, lmb, t, v, k, lmb)

\* find_scip_fuzzy_design with the covering rows normalised to 1 as well.
scip_model_normalised(t, v, k, lmb) == indicator_model("SCIP", TRUE, 1, t, v, k, 1)

\* find_scip_fuzzy_design: SCIP, SetNumThreads, NumVar(0, 1).
scip_model(t, v, k, lmb) == indicator_model("SCIP", TRUE, 1, t, v, k, lmb)

build_model(opt, t, v, k, lmb) ==
    CASE opt = "csp" -> csp_model(t, v, k, lmb)
      [] opt = "min" -> min_model(t, v, k, lmb)
      [] opt = "scip" -> scip_model(t, v, k, lmb)

\* What the formulation function raises before it reaches solver.Solve():
\* combinations() rejects a negative r, CreateSolver may fail, and (csp only)
\* the expected size lmb * comb(v, t) / comb(k, t) rejects a negative v and
\* divides by zero when t > k.
build_raises(opt, avail, t, v, k, lmb) ==
    IF k < 0 \/ t < 0 THEN "ValueError"
    ELSE IF ~avail THEN "ValueError"
    ELSE IF opt # "csp" THEN "none"
    ELSE IF CombRaises(v, t) \/ CombRaises(k, t) THEN "ValueError"
    ELSE IF comb(k, t) = 0 THEN "ZeroDivisionError"
    ELSE "none"

\* The expected size with the blocks counted in place of the tuples.
solution_size_blocks(t, v, k, lmb) == Fraction(lmb * comb(v, k), comb(k, t))

\* solution_size = Fraction(lmb * comb(v, t) / comb(k, t)).limit_denominator()
solution_size(t, v, k, lmb) == Fraction(lmb * comb(v, t), comb(k, t))

-----------------------------------------------------------------------------
\* The engine.  A point gives every variable a numerator over Den.

RECURSIVE IntSum(_, _)
IntSum(f, S) ==
    IF S = {} THEN 0
    ELSE LET x == CHOOSE y \in S : TRUE
         IN  f[x] + IntSum(f, S \ {x})

\* sum(coef * value) over the variables of coef.
Linear(coef, a) == IntSum([x \in DOMAIN coef |-> coef[x] * a[x]], DOMAIN coef)

Values(var) ==
    {n \in (var.lb * Den)..(var.ub * Den) : var.integer => n % Den = 0}

\* lo <= sum <= hi for a row whose left-hand side evaluates to `sum`.
Holds(row, sum) ==
    /\ row.lo * Den <= sum
    /\ row.upper => sum <= row.hi * Den

Satisfied(row, a) == Holds(row, Linear(row.coef, a))

\* The variables a row really uses, and whether its left-hand side can only
\* grow as more variables are given values (positive coefficients on
\* nonnegative variables).
RowInfo(m) ==
    [c \in DOMAIN m.constraints |->
        LET row == m.constraints[c]
            used == {x \in DOMAIN row.coef : row.coef[x] # 0}
        IN  [used |-> used,
             grows |-> \A x \in used : row.coef[x] > 0 /\ m.variables[x].lb >= 0]]

RECURSIVE SetToSeq(_)
SetToSeq(S) ==
    IF S = {} THEN <<>>
    ELSE LET x == CHOOSE y \in S : TRUE
         IN  <<x>> \o SetToSeq(S \ {x})

\* The variables block by block, a block's indicator before its weight.
VarOrder(m) ==
    LET blocks == SetToSeq({x.set : x \in DOMAIN m.variables})
        of(b) == (IF IndVar(b) \in DOMAIN m.variables THEN <<IndVar(b)>> ELSE <<>>)
                 \o (IF BlockVar(b) \in DOMAIN m.variables THEN <<BlockVar(b)>> ELSE <<>>)
        RECURSIVE cat(_)
        cat(bs) == IF bs = <<>> THEN <<>> ELSE of(Head(bs)) \o cat(Tail(bs))
    IN  cat(blocks)

\* The viable partial points, one variable of `todo` at a time; `given` are
\* the variables that already have a value.  A partial point is a record of
\* the values `a` and of every row's left-hand side `sums` over them.  Giving
\* x the value n can still lead to a feasible point only if no row that can
\* only grow rises above its upper bound, and every row whose last variable
\* is x holds.  Rows that do not use x keep their left-hand side.
RECURSIVE Extend(_, _, _, _, _)
Extend(m, info, todo, given, partial) ==
    IF todo = <<>> THEN partial
    ELSE LET x == Head(todo)
             touching == {c \in DOMAIN m.constraints : x \in info[c].used}
             growing == {c \in touching : m.constraints[c].upper /\ info[c].grows}
             closing == {c \in touching : info[c].used \subseteq given \cup {x}}
             values == Values(m.variables[x])
             sum(node, c, n) == node.sums[c] + m.constraints[c].coef[x] * n
             viable(node, n) ==
                 /\ \A c \in growing : sum(node, c, n) <= m.constraints[c].hi * Den
                 /\ \A c \in closing : Holds(m.constraints[c], sum(node, c, n))
             next(node, n) ==
                 [a |-> node.a @@ (x :> n),
                  sums |-> [c \in touching |-> sum(node, c, n)] @@ node.sums]
         IN  Extend(m, info, Tail(todo), given \cup {x},
                    {next(p[1], p[2]) :
                        p \in {q \in partial \X values : viable(q[1], q[2])}})

\* Every point within the variable bounds that satisfies every row.
Feasible(m) ==
    LET start == [a |-> <<>>, sums |-> [c \in DOMAIN m.constraints |-> 0]]
        complete == Extend(m, RowInfo(m), VarOrder(m), {}, {start})
    IN  {node.a : node \in
            {n \in complete : \A c \in DOMAIN m.constraints :
                                 Holds(m.constraints[c], n.sums[c])}}

ObjectiveValue(m, a) == Linear(m.objective, a)

Minimum(S) == CHOOSE n \in S : \A o \in S : n <= o

\* The points of `feasible` of least objective value.
Best(m, feasible) ==
    IF feasible = {} THEN {}
    ELSE LET best == Minimum({ObjectiveValue(m, a) : a \in feasible})
         IN  {a \in feasible : ObjectiveValue(m, a) = best}

\* The feasible points of least objective value.
Optimal(m) == Best(m, Feasible(m))

\* solver.Solve() followed by objective.Value() and solution_value(): with no
\* solution the wrapper answers 0 for each.
Outcomes(m) ==
    LET optimal == Optimal(m)
    IN  IF optimal = {}
        THEN {[status |-> "INFEASIBLE", objective |-> 0,
               value |-> [x \in DOMAIN m.variables |-> 0]]}
        ELSE {[status |-> "OPTIMAL", objective |-> ObjectiveValue(m, a), value |-> a]
              : a \in optimal}

NoSolution == [status |-> "NOT_SOLVED", objective |-> 0, value |-> <<>>]

-----------------------------------------------------------------------------
\* Command line: argv[1:] is a list of tokens, each an integer literal or not.

Tok(n) == [int |-> TRUE, val |-> n]
BadTok == [int |-> FALSE, val |-> 0]

Optimizers == {"csp", "min", "scip"}

Params == (-1)..MaxV

\* Four integer arguments are explored when their universe has at most
\* MaxBlocks blocks and, for 1 <= t <= k <= v, the uniform design (every block
\* at weight lmb / C(v-t, k-t)) is a multiple of 1/Den.  A model with any
\* feasible point then has one in engine numbers: averaging a feasible point
\* over the permutations of the points gives the uniform design, and for t = 0
\* the single row has whole solutions whenever it has any.
Explored(t, v, k, lmb) ==
    /\ (v >= 0 /\ k >= 0) => comb(v, k) <= MaxBlocks
    /\ (1 <= t /\ t <= k /\ k <= v) => (lmb * Den) % comb(v - t, k - t) = 0

\* Argument lists explored: four integers within the bounds, and malformed
\* lists.
ArgLists ==
    {<<Tok(p[1]), Tok(p[2]), Tok(p[3]), Tok(p[4])>> :
        p \in {q \in Params \X Params \X Params \X (1..MaxLmb) :
                  Explored(q[1], q[2], q[3], q[4])}}
    \cup {<<>>, <<Tok(1), Tok(3), Tok(2)>>, <<Tok(1), Tok(3), Tok(2), Tok(1), Tok(1)>>,
          <<Tok(1), BadTok, Tok(2), Tok(1)>>, <<Tok(1), Tok(3), Tok(2), BadTok>>}

\* t, v, k, lmb = map(int, argv[1:]): the ValueError it raises, if any.  The
\* unpacking draws at most five items from the lazy map.
parse_error(a) ==
    LET drawn == {i \in DOMAIN a : i <= 5}
    IN  IF \E i \in drawn : ~a[i].int THEN "invalid literal for int()"
        ELSE IF Len(a) < 4 THEN "not enough values to unpack"
        ELSE IF Len(a) > 4 THEN "too many values to unpack"
        ELSE "none"

Unbound == [bound |-> FALSE, t |-> 0, v |-> 0, k |-> 0, lmb |-> 0]

\* Values a formulation function hands back to main.
Pending == [kind |-> "pending", size |-> Zero, design |-> <<>>, exc |-> "none"]
None == [kind |-> "none", size |-> Zero, design |-> <<>>, exc |-> "none"]
Pair(size, design) == [kind |-> "pair", size |-> size, design |-> design, exc |-> "none"]
Raise(exc) == [kind |-> "raise", size |-> Zero, design |-> <<>>, exc |-> exc]

\* The design without its filter: every block, zero weights included.
extract_design_unfiltered(m, sol) ==
    LET blocks == {x.set : x \in {y \in DOMAIN m.variables : y.kind = "b"}}
    IN  [b \in blocks |-> limit_denominator(sol.value[BlockVar(b)])]

\* {b: s for b, v in block_variables.items()
\*        if (s := Fraction(v.solution_value()).limit_denominator())}
extract_design(m, sol) ==
    LET weight(b) == limit_denominator(sol.value[BlockVar(b)])
        blocks == {x.set : x \in {y \in DOMAIN m.variables : y.kind = "b"}}
    IN  [b \in {c \in blocks : weight(c).num # 0} |-> weight(b)]

\* find_csp_fuzzy_design without its size check.
csp_return_unchecked(m, sol, t, v, k, lmb) ==
    Pair(solution_size(t, v, k, lmb), extract_design(m, sol))

\* find_csp_fuzzy_design after solver.Solve(): the size check, then the design.
csp_return(m, sol, t, v, k, lmb) ==
    LET obj_value == limit_denominator(sol.objective)
    IN  IF obj_value # solution_size(t, v, k, lmb) THEN None
        ELSE Pair(solution_size(t, v, k, lmb), extract_design(m, sol))

\* find_min_fuzzy_design and find_scip_fuzzy_design after solver.Solve().
min_return(m, sol) == Pair(limit_denominator(sol.objective), extract_design(m, sol))

\* main's COVERAGES: for each tuple, the sum of the factors of the design's
\* blocks that contain it.
coverage(design, v, t) ==
    [tup \in Subsets(v, t) |->
        FracSum(design, {b \in DOMAIN design : tup \subseteq b})]

-----------------------------------------------------------------------------
Init ==
    /\ pc = "start"
    /\ argv \in ArgLists
    /\ optimizer \in Optimizers
    /\ args = Unbound
    /\ model = NoModel
    /\ solution = NoSolution
    /\ result = Pending
    /\ out = <<>>
    /\ coverages = <<>>
    /\ raised = "none"

\* main, first try block.
ParseArgs ==
    /\ pc = "start"
    /\ pc' = "call"
    /\ IF parse_error(argv) = "none"
       THEN /\ args' = [bound |-> TRUE, t |-> argv[1].val, v |-> argv[2].val,
                        k |-> argv[3].val, lmb |-> argv[4].val]
            /\ out' = out
       ELSE /\ args' = Unbound
            /\ out' = out \o <<"Usage", "Exception occurred: " \o parse_error(argv)>>
    /\ UNCHANGED <<argv, optimizer, model, solution, result, coverages, raised>>

\* main calls optimizer(t, v, k, lmb); the formulation function builds its
\* universe and model up to solver.Solve().
CallOptimizer ==
    /\ pc = "call"
    /\ IF ~args.bound
       THEN /\ raised' = "UnboundLocalError"
            /\ pc' = "done"
            /\ UNCHANGED <<model, result>>
       ELSE \E avail \in BOOLEAN :
              LET exc == build_raises(optimizer, avail, args.t, args.v, args.k, args.lmb)
              IN  IF exc # "none"
                  THEN /\ result' = Raise(exc)
                       /\ pc' = "returned"
                       /\ UNCHANGED <<model, raised>>
                  ELSE /\ model' = build_model(optimizer, args.t, args.v, args.k, args.lmb)
                       /\ pc' = "solve"
                       /\ UNCHANGED <<result, raised>>
    /\ UNCHANGED <<argv, optimizer, args, solution, out, coverages>>

\* solver.Solve()
Solve ==
    /\ pc = "solve"
    /\ solution' \in Outcomes(model)
    /\ pc' = "solved"
    /\ UNCHANGED <<argv, optimizer, args, model, result, out, coverages, raised>>

\* The formulation function reads the objective and the weights and returns.
Return ==
    /\ pc = "solved"
    /\ result' = IF optimizer = "csp"
                 THEN csp_return(model, solution, args.t, args.v, args.k, args.lmb)
                 ELSE min_return(model, solution)
    /\ pc' = "returned"
    /\ UNCHANGED <<argv, optimizer, args, model, solution, out, coverages, raised>>

\* main, second try block after the call: a ValueError is printed, any other
\* exception leaves main; None cannot be unpacked into solution_size,
\* fuzzy_design; a pair is printed (its design is never None).
Report ==
    /\ pc = "returned"
    /\ pc' = "done"
    /\ CASE result.kind = "raise" /\ result.exc = "ValueError" ->
              /\ out' = out \o <<"Exception occurred: " \o result.exc>>
              /\ UNCHANGED <<coverages, raised>>
         [] result.kind = "raise" /\ result.exc # "ValueError" ->
              /\ raised' = result.exc
              /\ UNCHANGED <<out, coverages>>
         [] result.kind = "none" ->
              /\ raised' = "TypeError"
              /\ UNCHANGED <<out, coverages>>
         [] result.kind = "pair" ->
              /\ out' = out \o <<"Solution size", "*** FUZZY BLOCKS ***", "*** COVERAGES ***">>
              /\ coverages' = coverage(result.design, args.v, args.t)
              /\ raised' = raised
    /\ UNCHANGED <<argv, optimizer, args, model, solution, result>>

Next == ParseArgs \/ CallOptimizer \/ Solve \/ Return \/ Report

Spec == Init /\ [][Next]_vars

-----------------------------------------------------------------------------
\* Vocabulary of the properties.

ValidParams == args.bound /\ 0 <= args.t /\ args.t <= args.k /\ args.k <= args.v
Built == pc = "solve"
Returned == pc \in {"returned", "done"} /\ result.kind \in {"pair", "none"}
ReturnedPair == pc \in {"returned", "done"} /\ result.kind = "pair"
ModelBlocks == {x.set : x \in {y \in DOMAIN model.variables : y.kind = "b"}}
ModelIndicators == {x.set : x \in {y \in DOMAIN model.variables : y.kind = "x"}}
CoverRows == {c \in DOMAIN model.constraints : c.kind = "c"}
LinkRows == {c \in DOMAIN model.constraints : c.kind = "l"}
obj_value == limit_denominator(solution.objective)
Whole(n) == Fraction(n, 1)
\* The coverage of a tuple by a design: the sum of the weights of the
\* design's blocks that contain it.
Covered(design, tup) == FracSum(design, {b \in DOMAIN design : tup \subseteq b})

-----------------------------------------------------------------------------
\* C1 as stated, on the inputs 0 <= t <= k <= v whose model the engine solves
\* to optimality: a formulation function returns a pair only when the
\* objective value, as a fraction, equals lmb * C(v,t) / C(k,t).
C1_Original ==
    (ReturnedPair /\ ValidParams /\ solution.status = "OPTIMAL")
        => obj_value = solution_size(args.t, args.v, args.k, args.lmb)

\* C1, amended: find_csp_fuzzy_design returns a pair exactly when the
\* objective value equals the bound lmb * C(v,t) / C(k,t) and None exactly
\* when the two differ; find_min_fuzzy_design and find_scip_fuzzy_design make
\* no comparison and return the pair (objective value, design) after every
\* solve.
C1_Amended ==
    /\ (Returned /\ optimizer = "csp")
         => (result.kind = "pair"
               <=> obj_value = solution_size(args.t, args.v, args.k, args.lmb))
    /\ (pc \in {"returned", "done"} /\ optimizer # "csp" /\ solution.status # "NOT_SOLVED")
         => (result.kind = "pair" /\ result.size = obj_value)

\* find_csp_fuzzy_design has rejected a solve whose objective is not the bound.
C1_Witness ==
    /\ Returned /\ optimizer = "csp" /\ result.kind = "none"
    /\ obj_value # solution_size(args.t, args.v, args.k, args.lmb)

\* C2, on the inputs 0 <= t <= k <= v: in every returned pair, every t-subset
\* of {0..v-1} is covered with total weight exactly lambda.
C2_Claim ==
    (ReturnedPair /\ ValidParams) =>
        \A tup \in tuples(args.v, args.t) :
            Covered(result.design, tup) = Whole(args.lmb)

\* C3: main ends with no exception escaping; a malformed argument list
\* prints the usage and the exception text, an absent design prints the one
\* "Could not find" line, a pair prints the design.
C3_Claim ==
    pc = "done" =>
        /\ raised = "none"
        /\ parse_error(argv) # "none"
             => out = <<"Usage", "Exception occurred: " \o parse_error(argv)>>
        /\ result.kind = "none" => out = <<"Could not find">>
        /\ result.kind = "pair"
             => out = <<"Solution size", "*** FUZZY BLOCKS ***", "*** COVERAGES ***">>

\* C4: for 0 <= t <= k <= v the universe has exactly C(v,k) blocks, each of k
\* points of {0..v-1}, and C(v,t) tuples, each of t points; the built model
\* has one weight variable per block and one covering row per tuple, and the
\* indicator formulations one indicator and one linking row per block (the
\* feasibility formulation none).
C4_Universe ==
    (Built /\ ValidParams) =>
        /\ Cardinality(potential_blocks(args.v, args.k)) = comb(args.v, args.k)
        /\ \A b \in potential_blocks(args.v, args.k) :
               b \subseteq points(args.v) /\ Cardinality(b) = args.k
        /\ Cardinality(tuples(args.v, args.t)) = comb(args.v, args.t)
        /\ \A tup \in tuples(args.v, args.t) :
               tup \subseteq points(args.v) /\ Cardinality(tup) = args.t
        /\ ModelBlocks = potential_blocks(args.v, args.k)
        /\ Cardinality({x \in DOMAIN model.variables : x.kind = "b"}) = comb(args.v, args.k)
        /\ {c.set : c \in CoverRows} = tuples(args.v, args.t)
        /\ Cardinality(CoverRows) = comb(args.v, args.t)
        /\ IF optimizer = "csp"
           THEN ModelIndicators = {} /\ LinkRows = {}
           ELSE /\ ModelIndicators = ModelBlocks
                /\ Cardinality({x \in DOMAIN model.variables : x.kind = "x"})
                       = comb(args.v, args.k)
                /\ {c.set : c \in LinkRows} = ModelBlocks
                /\ Cardinality(LinkRows) = comb(args.v, args.k)

\* The 2-(4,3,lambda) universe in an indicator formulation: 4 blocks, 6 rows.
C4_Witness ==
    /\ Built /\ optimizer = "min"
    /\ args.t = 2 /\ args.v = 4 /\ args.k = 3
    /\ Cardinality(ModelBlocks) = 4 /\ Cardinality(CoverRows) = 6
    /\ Cardinality(LinkRows) = 4

\* C5: when no point satisfies every row of the built model, the formulation
\* function does not return a pair.
C5_Claim ==
    (pc = "returned" /\ model # NoModel /\ Feasible(model) = {})
        => result.kind # "pair"

\* The weights of a point of the model.
WeightsOf(a) == [b \in ModelBlocks |-> a[BlockVar(b)]]

\* C6: when t = k (0 <= k <= v), the one feasible weight assignment of the
\* built model gives every k-subset weight lambda, and the size returned for
\* it is C(v,k).
C6_Claim ==
    /\ (Built /\ ValidParams /\ args.t = args.k)
          => {WeightsOf(a) : a \in Feasible(model)}
                 = {[b \in potential_blocks(args.v, args.k) |-> args.lmb * Den]}
    /\ (ReturnedPair /\ ValidParams /\ args.t = args.k)
          => result.size = Whole(comb(args.v, args.k))

\* The indicator formulation the current call did not build.
OtherIndicatorModel ==
    IF optimizer = "min" THEN scip_model(args.t, args.v, args.k, args.lmb)
    ELSE min_model(args.t, args.v, args.k, args.lmb)

\* The objective values of the best points of `feasible`: one, or none.
ObjectiveValues(m, feasible) == {ObjectiveValue(m, a) : a \in Best(m, feasible)}

C8_Design ==
    ReturnedPair =>
        /\ DOMAIN result.design = {b \in ModelBlocks : solution.value[BlockVar(b)] # 0}
        /\ \A b \in DOMAIN result.design :
               /\ result.design[b] # Zero
               /\ result.design[b].num * Den
                      = solution.value[BlockVar(b)] * result.design[b].den

\* A returned design that leaves out a block of weight 0 and keeps another.
C8_Witness ==
    /\ ReturnedPair
    /\ \E b \in ModelBlocks : solution.value[BlockVar(b)] = 0
    /\ \E b \in ModelBlocks : b \in DOMAIN result.design

\* C9: in the indicator formulations every feasible point has indicator 1 on
\* every block of positive weight, every optimal point has indicator 0 on
\* every block of weight 0, and the size returned with an optimal solution is
\* the number of blocks of the returned design.
C9_Indicators ==
    /\ (Built /\ optimizer \in {"min", "scip"}) =>
          \A feasible \in {Feasible(model)} :
              /\ \A a \in feasible : \A b \in ModelBlocks :
                     a[BlockVar(b)] > 0 => a[IndVar(b)] = Den
              /\ \A a \in Best(model, feasible) : \A b \in ModelBlocks :
                     a[BlockVar(b)] = 0 => a[IndVar(b)] = 0
    /\ (ReturnedPair /\ optimizer \in {"min", "scip"} /\ solution.status = "OPTIMAL")
          => result.size = Whole(Cardinality(DOMAIN result.design))

\* An optimal solution that uses some blocks and leaves others at weight 0.
C9_Witness ==
    /\ ReturnedPair /\ optimizer = "min" /\ solution.status = "OPTIMAL"
    /\ DOMAIN result.design # {}
    /\ DOMAIN result.design # ModelBlocks

\* C10: in the feasibility formulation with 0 <= t <= k <= v, every feasible
\* point has total weight lambda * C(v,t) / C(k,t); every feasible solve is
\* accepted, and the returned size is that bound and the sum of the returned
\* weights.
C10_TotalWeight ==
    /\ (Built /\ optimizer = "csp" /\ ValidParams) =>
          \A a \in Feasible(model) :
              limit_denominator(IntSum(a, DOMAIN a))
                  = solution_size(args.t, args.v, args.k, args.lmb)
    /\ (Returned /\ optimizer = "csp" /\ ValidParams /\ solution.status = "OPTIMAL") =>
          /\ result.kind = "pair"
          /\ result.size = Fraction(args.lmb * comb(args.v, args.t), comb(args.k, args.t))
          /\ result.size = FracSum(result.design, DOMAIN result.design)

\* The 1-(3,2,1) design accepted at the fractional size 3/2.
C10_Witness ==
    /\ ReturnedPair /\ optimizer = "csp" /\ ValidParams
    /\ result.size = Fraction(3, 2)
    /\ Cardinality(DOMAIN result.design) = 3

====
